---- MODULE Spec2Model ----
(***************************************************************************)
(* MQTTSimulator of scripts/test-mqtt-simulator.py: the simulator object,  *)
(* its six generators, and the control flow of run_simulation.             *)
(*                                                                         *)
(* Units.  Every float of the program is held as an integer number of      *)
(* thousandths (22.0 is 22000), so that the sample points of               *)
(* random.uniform are exact.  A unit draw u stands for random.random()     *)
(* returning u/100; random.uniform(a, b) is a + (b - a) * random(), as in  *)
(* CPython.  The clock is in whole seconds.                                *)
(*                                                                         *)
(* The random module is a deterministic generator: rng holds the stream    *)
(* (a short periodic sequence of unit draws) and the position in it; each  *)
(* call of random() / uniform() / choice() consumes one draw, in the order *)
(* in which the code makes the calls.                                      *)
(***************************************************************************)
EXTENDS Integers, Sequences, FiniteSets, TLC

\* ------------------------------------------------------------------ bounds
\* A run that no duration ends is followed for this many cycles.
MaxCycles == 83
\* At most this many sleeps of a run overrun their 5 seconds (by one second).
MaxLate == 1
\* Ctrl+C, an overrunning sleep and a failing publish are followed when they
\* come in one of the first cycles of a run.
MaxEventCycle == 2

\* The streams of unit draws the random source may hold.
Seeds == { <<0, 0, 0>>, <<99, 99, 99>>, <<0, 99, 20>>, <<60, 5, 20>> }
\* The wall-clock readings (unix seconds) at which a run may start.
StartTimes == { 17 }
\* The values of --duration: <<>> is "omitted" (None), <<d>> is d seconds.
Durations == { <<>>, <<0>>, <<4>>, <<5>>, <<11>> }
\* datetime.now().hour
Hours == 0 .. 23
\* The hours a run reads: one of the night before 06h, one of the day, and 22h,
\* which the light levels count as night and the motion sensors as day.
RunHours == { 3, 12, 22 }
\* What client.publish returns for the i-th message of one generator call.
RcPatterns == { "ok", "fail", "alt" }

\* ------------------------------------------------------------------ state
VARIABLES
    pc,            \* position of control in run_simulation
    self,          \* the MQTTSimulator's fields (running and the sensor state)
    client,        \* what the mqtt client has been asked to do
    rng,           \* the random module's generator: [seed, pos]
    now,           \* time.time()
    duration,      \* run_simulation's argument
    start_time,    \* local of run_simulation
    cycle_count,   \* local of run_simulation
    published,     \* the client.publish calls of the latest generator call
    cycle_topics,  \* the topics of the client.publish calls of the current cycle
    history        \* what happened so far, for stating properties

vars == << pc, self, client, rng, now, duration, start_time, cycle_count,
           published, cycle_topics, history >>

\* ------------------------------------------------------------------ helpers
Max(a, b) == IF a >= b THEN a ELSE b
Min(a, b) == IF a <= b THEN a ELSE b
Abs(x) == IF x >= 0 THEN x ELSE -x

\* Python's round(x, 1) on a non-negative value in thousandths: the nearest
\* multiple of 100, a tie going to the even tenth.
Round1(x) ==
    LET q == x \div 100
        r == x % 100
    IN  IF r < 50 THEN 100 * q
        ELSE IF r > 50 THEN 100 * (q + 1)
        ELSE IF q % 2 = 0 THEN 100 * q ELSE 100 * (q + 1)

\* The k-th draw the generator g will return next (k = 1 is the next one).
Draw(g, k) == g.seed[((g.pos - 1 + k - 1) % Len(g.seed)) + 1]
\* The generator after n draws.
Skip(g, n) == [g EXCEPT !.pos = ((g.pos - 1 + n) % Len(g.seed)) + 1]

\* random.uniform(a, b) for the unit draw u; a and b in thousandths.
Uniform(a, b, u) == a + ((b - a) * u) \div 100
\* random.choice(seq) for the unit draw u.
Choice(seq, u) == seq[((u * Len(seq)) \div 100) + 1]

Range(s) == { s[i] : i \in 1 .. Len(s) }

\* Python values handed to publish, tagged with their type.
Float(x) == [type |-> "float", value |-> x]
Bool(b) == [type |-> "bool", value |-> b]
Str(t) == [type |-> "str", value |-> t]
Dict(d) == [type |-> "dict", value |-> d]
\* json.dumps of a dict: a text that determines the dict.
JsonDumps(p) == Str(<< "json", p.value >>)

\* ------------------------------------------------------------------ __init__
InitialSelf ==
    [ running |-> FALSE,
      temperature_base |-> 22000,
      humidity_base |-> 45000,
      light_level |-> 50000,
      motion_sensors |-> [ t \in { "sensors/motion/living-room",
                                   "sensors/motion/kitchen",
                                   "sensors/motion/bedroom" } |-> FALSE ] ]

\* The keys of motion_sensors in the order of the dict.
MotionTopics == << "sensors/motion/living-room", "sensors/motion/kitchen",
                   "sensors/motion/bedroom" >>

InitialClient ==
    [ connect_calls |-> 0, connected |-> FALSE, loop_running |-> FALSE,
      disconnect_calls |-> 0 ]

\* ------------------------------------------------------------------ publish
\* result.rc of the i-th client.publish of a generator call.
Rc(rcp, i) ==
    IF rcp = "ok" THEN 0
    ELSE IF rcp = "fail" THEN 4
    ELSE IF i % 2 = 1 THEN 4 ELSE 0

\* A generator call in progress: the simulator, the random generator, the
\* client.publish calls made so far and the client's answers to come.
Enter(s, g, rcp) == [ self |-> s, rng |-> g, sent |-> << >>, rcp |-> rcp ]

\* publish as it would be if a failed send stopped the simulation.
PublishStopsOnFailure(ctx, topic, payload) ==
    LET wire == IF payload.type = "dict" THEN JsonDumps(payload) ELSE payload
        rc == Rc(ctx.rcp, Len(ctx.sent) + 1)
    IN  [ ctx EXCEPT !.sent = Append(@, [ topic |-> topic, payload |-> wire,
                                          rc |-> rc,
                                          printed |-> IF rc = 0 THEN "sent"
                                                      ELSE "failed" ]),
                     !.self.running = IF rc = 0 THEN @ ELSE FALSE ]

\* publish(topic, payload): one client.publish call; the result code only
\* selects the line that is printed.
Publish(ctx, topic, payload) ==
    LET wire == IF payload.type = "dict" THEN JsonDumps(payload) ELSE payload
        rc == Rc(ctx.rcp, Len(ctx.sent) + 1)
    IN  [ ctx EXCEPT !.sent = Append(@, [ topic |-> topic, payload |-> wire,
                                          rc |-> rc,
                                          printed |-> IF rc = 0 THEN "sent"
                                                      ELSE "failed" ]) ]

\* ------------------------------------------------------------------ generators
Locations == << "living-room", "kitchen", "bedroom", "outdoor" >>

\* The temperature loop as it would be if every location were mirrored to
\* the converter's topic.
RECURSIVE TemperatureLoopMirrorsAll(_, _)
TemperatureLoopMirrorsAll(ctx, locations) ==
    IF locations = << >> THEN ctx
    ELSE
        LET location == Head(locations)
            drawn == Uniform(-2000, 2000, Draw(ctx.rng, 1))
            variation == IF location = "outdoor" THEN drawn * 2
                         ELSE IF location = "kitchen" THEN drawn + 1000
                         ELSE drawn
            temp == ctx.self.temperature_base + variation
                    + Uniform(-500, 500, Draw(ctx.rng, 2))
            c1 == Publish([ ctx EXCEPT !.rng = Skip(@, 2) ],
                          "sensors/temperature/" \o location,
                          Float(Round1(temp)))
            c2 == Publish(c1, "sensors/temperature/celsius", Float(Round1(temp)))
        IN  TemperatureLoopMirrorsAll(c2, Tail(locations))

RECURSIVE TemperatureLoop(_, _)
TemperatureLoop(ctx, locations) ==
    IF locations = << >> THEN ctx
    ELSE
        LET location == Head(locations)
            drawn == Uniform(-2000, 2000, Draw(ctx.rng, 1))
            variation == IF location = "outdoor" THEN drawn * 2
                         ELSE IF location = "kitchen" THEN drawn + 1000
                         ELSE drawn
            temp == ctx.self.temperature_base + variation
                    + Uniform(-500, 500, Draw(ctx.rng, 2))
            c1 == Publish([ ctx EXCEPT !.rng = Skip(@, 2) ],
                          "sensors/temperature/" \o location,
                          Float(Round1(temp)))
            c2 == IF location = "living-room"
                  THEN Publish(c1, "sensors/temperature/celsius",
                               Float(Round1(temp)))
                  ELSE c1
        IN  TemperatureLoop(c2, Tail(locations))

simulate_temperature_sensors(ctx) == TemperatureLoop(ctx, Locations)

RECURSIVE HumidityLoop(_, _)
HumidityLoop(ctx, locations) ==
    IF locations = << >> THEN ctx
    ELSE
        LET raw == ctx.self.humidity_base
                   + Uniform(-10000, 10000, Draw(ctx.rng, 1))
            humidity == Max(20000, Min(80000, raw))
        IN  HumidityLoop(
                Publish([ ctx EXCEPT !.rng = Skip(@, 1) ],
                        "sensors/humidity/" \o Head(locations),
                        Float(Round1(humidity))),
                Tail(locations))

simulate_humidity_sensors(ctx) ==
    HumidityLoop(ctx, << "living-room", "kitchen", "bedroom" >>)

\* The branch taken if the daytime test excluded its last hour.
LightRegimeDayEndsBefore20(current_hour) ==
    IF 6 <= current_hour /\ current_hour < 20 THEN "day"
    ELSE IF (21 <= current_hour /\ current_hour <= 23)
            \/ (0 <= current_hour /\ current_hour <= 5) THEN "night"
    ELSE "dawn_dusk"

\* The branch of the day/night cycle that simulate_light_sensors takes.
LightRegime(current_hour) ==
    IF 6 <= current_hour /\ current_hour <= 20 THEN "day"
    ELSE IF (21 <= current_hour /\ current_hour <= 23)
            \/ (0 <= current_hour /\ current_hour <= 5) THEN "night"
    ELSE "dawn_dusk"

simulate_light_sensors(ctx, current_hour) ==
    LET u == Draw(ctx.rng, 1)
        regime == LightRegime(current_hour)
        base_light == IF regime = "day" THEN 70000 + Uniform(-20000, 20000, u)
                      ELSE IF regime = "night"
                           THEN 10000 + Uniform(-5000, 15000, u)
                      ELSE 40000 + Uniform(-15000, 15000, u)
        level == Max(0, Min(100000, base_light))
    IN  Publish([ ctx EXCEPT !.rng = Skip(@, 1),
                             !.self.light_level = level ],
                "sensors/light", Float(Round1(level)))

\* The motion loop as it would be if an active sensor reported on every tick.
RECURSIVE MotionLoopReportsActive(_, _, _)
MotionLoopReportsActive(ctx, topics, motion_probability) ==
    IF topics = << >> THEN ctx
    ELSE
        LET sensor_topic == Head(topics)
            current_state == ctx.self.motion_sensors[sensor_topic]
            u == Draw(ctx.rng, 1)
            c0 == [ ctx EXCEPT !.rng = Skip(@, 1) ]
            c1 == IF current_state
                  THEN IF u < 70
                       THEN Publish([ c0 EXCEPT
                                !.self.motion_sensors[sensor_topic] = FALSE ],
                                sensor_topic, Bool(FALSE))
                       ELSE Publish(c0, sensor_topic, Bool(TRUE))
                  ELSE IF u < motion_probability
                       THEN Publish([ c0 EXCEPT
                                !.self.motion_sensors[sensor_topic] = TRUE ],
                                sensor_topic, Bool(TRUE))
                       ELSE c0
        IN  MotionLoopReportsActive(c1, Tail(topics), motion_probability)

RECURSIVE MotionLoop(_, _, _)
MotionLoop(ctx, topics, motion_probability) ==
    IF topics = << >> THEN ctx
    ELSE
        LET sensor_topic == Head(topics)
            current_state == ctx.self.motion_sensors[sensor_topic]
            u == Draw(ctx.rng, 1)
            c0 == [ ctx EXCEPT !.rng = Skip(@, 1) ]
            c1 == IF current_state
                  THEN IF u < 70
                       THEN Publish([ c0 EXCEPT
                                !.self.motion_sensors[sensor_topic] = FALSE ],
                                sensor_topic, Bool(FALSE))
                       ELSE c0
                  ELSE IF u < motion_probability
                       THEN Publish([ c0 EXCEPT
                                !.self.motion_sensors[sensor_topic] = TRUE ],
                                sensor_topic, Bool(TRUE))
                       ELSE c0
        IN  MotionLoop(c1, Tail(topics), motion_probability)

simulate_motion_sensors(ctx, current_hour) ==
    MotionLoop(ctx, MotionTopics,
               IF 6 <= current_hour /\ current_hour <= 22 THEN 30 ELSE 10)

simulate_device_status(ctx) ==
    LET thermostat == [ temperature |-> ctx.self.temperature_base,
                        target |-> 21,
                        mode |-> "auto",
                        heating |-> Choice(<< TRUE, FALSE >>, Draw(ctx.rng, 1)) ]
        power == Uniform(10000, 150000, Draw(ctx.rng, 2))
        door == Choice(<< "open", "closed" >>, Draw(ctx.rng, 3))
        window == Choice(<< "open", "closed" >>, Draw(ctx.rng, 4))
        c0 == [ ctx EXCEPT !.rng = Skip(@, 4) ]
        c1 == Publish(c0, "devices/thermostat/status", Dict(thermostat))
        c2 == Publish(c1, "devices/smart-plug/power", Float(power))
        c3 == Publish(c2, "devices/door-sensor", Str(door))
    IN  Publish(c3, "devices/window-sensor", Str(window))

TestSensorTopic(i) ==
    IF i = 0 THEN "test/temp-sensor-1"
    ELSE IF i = 1 THEN "test/temp-sensor-2" ELSE "test/temp-sensor-3"

RECURSIVE TestSensorLoop(_, _)
TestSensorLoop(ctx, i) ==
    IF i >= 3 THEN ctx
    ELSE
        LET temp == ctx.self.temperature_base
                    + Uniform(-3000, 3000, Draw(ctx.rng, 1))
        IN  TestSensorLoop(
                Publish([ ctx EXCEPT !.rng = Skip(@, 1) ],
                        TestSensorTopic(i), Float(Round1(temp))),
                i + 1)

simulate_test_scenarios(ctx, t) ==
    LET test_value == 20000 + 1000 * (t % 20)
        c1 == Publish(ctx, "test/threshold-sensor", Float(Round1(test_value)))
        c2 == [ c1 EXCEPT !.rng = Skip(@, 1) ]
        c3 == IF Draw(c1.rng, 1) < 20
              THEN Publish(c2, "test/toggle-button", Bool(TRUE))
              ELSE c2
    IN  TestSensorLoop(c3, 0)

\* The drift as it would be without the lower clamps.
DriftBaseValuesNoFloor(ctx) ==
    LET t1 == ctx.self.temperature_base + Uniform(-100, 100, Draw(ctx.rng, 1))
        h1 == ctx.self.humidity_base + Uniform(-500, 500, Draw(ctx.rng, 2))
    IN  [ ctx EXCEPT !.rng = Skip(@, 2),
                     !.self.temperature_base = Min(30000, t1),
                     !.self.humidity_base = Min(70000, h1) ]

\* The drift as it would be with a temperature step of up to 0.2.
DriftBaseValuesWide(ctx) ==
    LET t1 == ctx.self.temperature_base + Uniform(-200, 200, Draw(ctx.rng, 1))
        h1 == ctx.self.humidity_base + Uniform(-500, 500, Draw(ctx.rng, 2))
    IN  [ ctx EXCEPT !.rng = Skip(@, 2),
                     !.self.temperature_base = Max(18000, Min(30000, t1)),
                     !.self.humidity_base = Max(30000, Min(70000, h1)) ]

\* The drift of the base values at the end of a cycle.
DriftBaseValues(ctx) ==
    LET t1 == ctx.self.temperature_base + Uniform(-100, 100, Draw(ctx.rng, 1))
        h1 == ctx.self.humidity_base + Uniform(-500, 500, Draw(ctx.rng, 2))
    IN  [ ctx EXCEPT !.rng = Skip(@, 2),
                     !.self.temperature_base = Max(18000, Min(30000, t1)),
                     !.self.humidity_base = Max(30000, Min(70000, h1)) ]

\* ------------------------------------------------------------------ connect, disconnect
\* connect() as it would be if the handler did not return False.
ConnectAlwaysTrue(c, reached) ==
    IF reached
    THEN [ result |-> TRUE,
           client |-> [ c EXCEPT !.connect_calls = @ + 1, !.connected = TRUE,
                                 !.loop_running = TRUE ] ]
    ELSE [ result |-> TRUE,
           client |-> [ c EXCEPT !.connect_calls = @ + 1 ] ]

\* connect(): client.connect and loop_start succeed (reached) or raise.
Connect(c, reached) ==
    IF reached
    THEN [ result |-> TRUE,
           client |-> [ c EXCEPT !.connect_calls = @ + 1, !.connected = TRUE,
                                 !.loop_running = TRUE ] ]
    ELSE [ result |-> FALSE,
           client |-> [ c EXCEPT !.connect_calls = @ + 1 ] ]

\* disconnect()
Disconnect(s, c) ==
    [ self |-> [ s EXCEPT !.running = FALSE ],
      client |-> [ c EXCEPT !.loop_running = FALSE, !.connected = FALSE,
                            !.disconnect_calls = @ + 1 ] ]

\* ------------------------------------------------------------------ run_simulation
Generators == << "temperature", "humidity", "light", "motion", "device", "test" >>

\* The statement after the call of generator p in the loop body.
After(p) ==
    CASE p = "temperature" -> "humidity"
      [] p = "humidity" -> "light"
      [] p = "light" -> "motion"
      [] p = "motion" -> "device"
      [] p = "device" -> "test"
      [] p = "test" -> "drift"

\* The call at position p of the loop body.
Call(p, s, g, rcp, hour, t) ==
    CASE p = "temperature" -> simulate_temperature_sensors(Enter(s, g, rcp))
      [] p = "humidity" -> simulate_humidity_sensors(Enter(s, g, rcp))
      [] p = "light" -> simulate_light_sensors(Enter(s, g, rcp), hour)
      [] p = "motion" -> simulate_motion_sensors(Enter(s, g, rcp), hour)
      [] p = "device" -> simulate_device_status(Enter(s, g, rcp))
      [] p = "test" -> simulate_test_scenarios(Enter(s, g, rcp), t)
      [] p = "drift" -> DriftBaseValues(Enter(s, g, rcp))

\* The exit test as it would be with >= for >.
DurationElapsedInclusive(d, elapsed) ==
    /\ d # << >>
    /\ d[1] # 0
    /\ elapsed >= d[1]

\* The loop's exit test on the duration (line 183).
DurationElapsed(d, elapsed) ==
    /\ d # << >>
    /\ d[1] # 0
    /\ elapsed > d[1]

TopicsOf(sent) == [ i \in 1 .. Len(sent) |-> sent[i].topic ]

\* The payload of the last message of sent on topic t, as a one-element
\* sequence, or prev when there is none.
RECURSIVE LastOn(_, _, _)
LastOn(sent, t, prev) ==
    IF sent = << >> THEN prev
    ELSE IF sent[Len(sent)].topic = t THEN << sent[Len(sent)].payload.value >>
    ELSE LastOn(SubSeq(sent, 1, Len(sent) - 1), t, prev)

\* What the call at p did, with the client's answers removed.
Outcome(c) ==
    [ self |-> c.self, rng |-> c.rng,
      sent |-> [ i \in 1 .. Len(c.sent) |->
                   [ topic |-> c.sent[i].topic, payload |-> c.sent[i].payload ] ] ]

\* The record of the latest step: its name and, for the light level, the hour
\* read and the branch taken.
Called(name) == [ name |-> name, hour |-> -1, regime |-> "none" ]

InitialHistory(g) ==
    [ connect_result |-> "none",
      exit |-> "none",
      interrupted |-> FALSE,
      late |-> 0,
      any_published |-> FALSE,
      cycle_base |-> InitialSelf.temperature_base,
      call |-> Called("none"),
      last_motion |-> [ t \in Range(MotionTopics) |-> << >> ],
      ref |-> Outcome(Enter(InitialSelf, g, "ok")) ]

Init ==
    /\ pc = "connect"
    /\ self = InitialSelf
    /\ client = InitialClient
    /\ rng \in [ seed : Seeds, pos : { 1 } ]
    /\ now \in StartTimes
    /\ duration \in Durations
    /\ start_time = 0
    /\ cycle_count = 0
    /\ published = << >>
    /\ cycle_topics = << >>
    /\ history = InitialHistory(rng)

\* Lines 170-171.
RunConnect ==
    /\ pc = "connect"
    /\ \E reached \in BOOLEAN :
         LET r == Connect(client, reached)
         IN  /\ client' = r.client
             /\ pc' = IF r.result THEN "setup" ELSE "done"
             /\ history' = [ history EXCEPT
                   !.connect_result = IF reached THEN "ok" ELSE "failed",
                   !.exit = IF r.result THEN @ ELSE "return" ]
    /\ UNCHANGED << self, rng, now, duration, start_time, cycle_count,
                    published, cycle_topics >>

\* Lines 173-179: the statements between connect and the try block.
Setup ==
    /\ pc = "setup"
    /\ self' = [ self EXCEPT !.running = TRUE ]
    /\ start_time' = now
    /\ cycle_count' = 0
    /\ pc' = "check"
    /\ UNCHANGED << client, rng, now, duration, published, cycle_topics,
                    history >>

\* Lines 182-187: the loop condition, the duration test and the cycle header.
LoopCheck ==
    /\ pc = "check"
    /\ IF ~self.running \/ DurationElapsed(duration, now - start_time)
       THEN /\ pc' = "finally"
            /\ UNCHANGED << cycle_count, cycle_topics, published >>
       ELSE /\ cycle_count < MaxCycles
            /\ cycle_count' = cycle_count + 1
            /\ cycle_topics' = << >>
            /\ published' = << >>
            /\ pc' = "temperature"
    /\ UNCHANGED << self, client, rng, now, duration, start_time, history >>

\* The readings of datetime.now().hour that the call at p may get.
HoursRead(p) == IF p \in { "light", "motion" } THEN RunHours ELSE { -1 }

\* The answers of client.publish that the calls of cycle n may get.
AnswersIn(n) == IF n <= MaxEventCycle THEN RcPatterns ELSE { "ok" }

\* One call of the loop body (lines 190-195).
Generator(p) ==
    /\ pc = p
    /\ \E rcp \in AnswersIn(cycle_count), hour \in HoursRead(p) :
         LET c == Call(p, self, rng, rcp, hour, now)
         IN  /\ self' = c.self
             /\ rng' = c.rng
             /\ published' = c.sent
             /\ cycle_topics' = cycle_topics \o TopicsOf(c.sent)
             /\ history' = [ history EXCEPT
                   !.ref = Outcome(Call(p, self, rng, "ok", hour, now)),
                   !.call = IF p = "light"
                            THEN [ name |-> p, hour |-> hour,
                                   regime |-> LightRegime(hour) ]
                            ELSE Called(p),
                   !.any_published = @ \/ c.sent # << >>,
                   !.cycle_base = IF p = "temperature"
                                  THEN self.temperature_base ELSE @,
                   !.last_motion = [ t \in DOMAIN @ |-> LastOn(c.sent, t, @[t]) ] ]
    /\ pc' = After(p)
    /\ UNCHANGED << client, now, duration, start_time, cycle_count >>

Temperature == Generator("temperature")
Humidity == Generator("humidity")
Light == Generator("light")
Motion == Generator("motion")
Device == Generator("device")
Test == Generator("test")

\* Lines 198-202.
Drift ==
    /\ pc = "drift"
    /\ LET c == Call("drift", self, rng, "ok", -1, now)
       IN  /\ self' = c.self
           /\ rng' = c.rng
           /\ history' = [ history EXCEPT
                 !.ref = Outcome(c),
                 !.call = Called("drift") ]
    /\ published' = << >>
    /\ pc' = "sleep"
    /\ UNCHANGED << client, now, duration, start_time, cycle_count,
                    cycle_topics >>

\* Line 204: time.sleep(5) returns after 5 seconds, or a second later.
Sleep ==
    /\ pc = "sleep"
    /\ \E over \in { 0, 1 } :
         /\ over = 1 => (history.late < MaxLate /\ cycle_count <= MaxEventCycle)
         /\ now' = now + 5 + over
         /\ history' = [ history EXCEPT !.late = @ + over,
                                        !.call = Called("sleep") ]
    /\ pc' = "check"
    /\ UNCHANGED << self, client, rng, duration, start_time, cycle_count,
                    published, cycle_topics >>

\* Ctrl+C: KeyboardInterrupt is raised in the main thread, in the statement
\* at pc.  Within the try block the handler at line 206 takes it; before the
\* try block it leaves run_simulation.  An interrupted generator call has
\* made some prefix of its publish calls.
Interrupt ==
    /\ pc \in { "setup", "check", "drift", "sleep" } \cup Range(Generators)
    /\ ~history.interrupted
    /\ cycle_count <= MaxEventCycle
    /\ IF pc \in Range(Generators)
       THEN \E hour \in HoursRead(pc) :
              LET c == Call(pc, self, rng, "ok", hour, now)
              IN  \E n \in 0 .. Len(c.sent) :
                    /\ published' = SubSeq(c.sent, 1, n)
                    /\ cycle_topics' = cycle_topics \o TopicsOf(SubSeq(c.sent, 1, n))
                    /\ history' = [ history EXCEPT
                          !.interrupted = TRUE,
                          !.any_published = @ \/ n > 0,
                          !.call = Called("interrupt") ]
       ELSE /\ history' = [ history EXCEPT
                  !.interrupted = TRUE,
                  !.exit = IF pc = "setup" THEN "KeyboardInterrupt" ELSE @,
                  !.call = Called("interrupt") ]
            /\ UNCHANGED << published, cycle_topics >>
    /\ pc' = IF pc = "setup" THEN "done" ELSE "except"
    /\ UNCHANGED << self, rng, client, now, duration, start_time, cycle_count >>

\* Lines 206-207.
Except ==
    /\ pc = "except"
    /\ pc' = "finally"
    /\ UNCHANGED << self, client, rng, now, duration, start_time, cycle_count,
                    published, cycle_topics, history >>

\* Lines 208-209.
Finally ==
    /\ pc = "finally"
    /\ LET r == Disconnect(self, client)
       IN  /\ self' = r.self
           /\ client' = r.client
    /\ pc' = "done"
    /\ history' = [ history EXCEPT !.exit = "return" ]
    /\ UNCHANGED << rng, now, duration, start_time, cycle_count, published,
                    cycle_topics >>

Next ==
    \/ RunConnect
    \/ Setup
    \/ LoopCheck
    \/ Temperature
    \/ Humidity
    \/ Light
    \/ Motion
    \/ Device
    \/ Test
    \/ Drift
    \/ Sleep
    \/ Interrupt
    \/ Except
    \/ Finally

Spec == Init /\ [][Next]_vars

\* ------------------------------------------------------------------ the light level alone
\* simulate_light_sensors called on a constructed simulator, at any hour of
\* the day.
InitLight ==
    /\ pc = "light"
    /\ self = InitialSelf
    /\ client = InitialClient
    /\ rng \in [ seed : Seeds, pos : { 1 } ]
    /\ now \in StartTimes
    /\ duration = << >>
    /\ start_time = 0
    /\ cycle_count = 0
    /\ published = << >>
    /\ cycle_topics = << >>
    /\ history = InitialHistory(rng)

LightCall ==
    /\ pc = "light"
    /\ \E rcp \in RcPatterns, hour \in Hours :
         LET c == simulate_light_sensors(Enter(self, rng, rcp), hour)
         IN  /\ self' = c.self
             /\ rng' = c.rng
             /\ published' = c.sent
             /\ history' = [ history EXCEPT
                   !.ref = Outcome(simulate_light_sensors(
                                       Enter(self, rng, "ok"), hour)),
                   !.call = [ name |-> "light", hour |-> hour,
                              regime |-> LightRegime(hour) ],
                   !.any_published = TRUE ]
    /\ UNCHANGED << pc, client, now, duration, start_time, cycle_count,
                    cycle_topics >>

NextLight == LightCall

SpecLight == InitLight /\ [][NextLight]_vars

\* ------------------------------------------------------------------ properties
ConnectSucceeded == history.connect_result = "ok"

\* C1: once connect has succeeded, disconnect is invoked exactly once on
\* every exit path of run_simulation: never twice, and once by the time
\* run_simulation has been left.
C1_DisconnectExactlyOnce ==
    ConnectSucceeded =>
        /\ client.disconnect_calls <= 1
        /\ pc = "done" => client.disconnect_calls = 1

\* run_simulation has returned after a run with a duration, no interrupt and
\* sleeps of exactly 5 seconds.
TimedRunCompleted ==
    /\ pc = "done"
    /\ ConnectSucceeded
    /\ ~history.interrupted
    /\ history.late = 0
    /\ duration # << >>

\* C2 as stated: a run of N seconds executes exactly floor(N/5) cycles.
C2_FloorCycles ==
    TimedRunCompleted => cycle_count = duration[1] \div 5

\* C2: a run of N >= 1 seconds with exact 5-second sleeps executes exactly
\* floor(N/5) + 1 cycles (the cycle at elapsed time 5k starts whenever
\* 5k <= N); with duration 11 these are the cycles at 0, 5 and 10.
C2_FloorCyclesPlusOne ==
    (TimedRunCompleted /\ duration[1] >= 1) =>
        cycle_count = (duration[1] \div 5) + 1

C2_Witness ==
    /\ TimedRunCompleted
    /\ duration = << 11 >>
    /\ cycle_count = 3

\* C3: a supplied duration d >= 0 ends the run: once the elapsed time read
\* at the head of the loop exceeds d, no further cycle is started.
C3_SuppliedDurationEndsLoop ==
    [][ ( /\ pc = "check"
          /\ duration # << >>
          /\ now - start_time > duration[1] )
        => pc' # "temperature" ]_vars

\* The indices of the messages of sent on topic t.
On(sent, t) == { i \in 1 .. Len(sent) : sent[i].topic = t }

\* C4: a completed call of simulate_motion_sensors publishes on a motion
\* topic exactly when that topic's stored state changed in the call, once,
\* with the new state as payload; the payload differs from the one published
\* last on the topic, the first being True.
C4_MotionPublishedIffChanged ==
    [][ (pc = "motion" /\ pc' = "device") =>
        \A t \in Range(MotionTopics) :
            /\ (On(published', t) # {})
                 <=> (self'.motion_sensors[t] # self.motion_sensors[t])
            /\ Cardinality(On(published', t)) <= 1
            /\ \A i \in On(published', t) :
                 /\ published'[i].payload.value = self'.motion_sensors[t]
                 /\ IF history.last_motion[t] = << >>
                    THEN published'[i].payload.value = TRUE
                    ELSE published'[i].payload.value # history.last_motion[t][1]
      ]_vars

C4_Witness ==
    /\ pc = "device"
    /\ history.call.name = "motion"
    /\ \E i \in 1 .. Len(published) : published[i].payload.value = FALSE
    /\ \E t \in Range(MotionTopics) : On(published, t) = {}

HumidityTopics ==
    { "sensors/humidity/living-room", "sensors/humidity/kitchen",
      "sensors/humidity/bedroom" }

\* C5: the base values and the light level stay within their clamps, and
\* every humidity published is within [20, 80] and every light level
\* published within [0, 100].
C5_ValuesWithinClamps ==
    /\ 18000 <= self.temperature_base /\ self.temperature_base <= 30000
    /\ 30000 <= self.humidity_base /\ self.humidity_base <= 70000
    /\ 0 <= self.light_level /\ self.light_level <= 100000
    /\ \A i \in 1 .. Len(published) :
         /\ published[i].topic \in HumidityTopics =>
              /\ 20000 <= published[i].payload.value
              /\ published[i].payload.value <= 80000
         /\ published[i].topic = "sensors/light" =>
              /\ 0 <= published[i].payload.value
              /\ published[i].payload.value <= 100000

\* Both lower clamps have acted and a humidity at the bound has gone out.
C5_Witness ==
    /\ self.temperature_base = 18000
    /\ self.humidity_base = 30000
    /\ cycle_count > 40
    /\ \E i \in 1 .. Len(published) :
         /\ published[i].topic \in HumidityTopics
         /\ published[i].payload.value = 20000

\* C6: when connect fails, run_simulation returns at once: one connect
\* attempt, no cycle, no publish, running still False and the sensor state
\* as constructed.
C6_FailedConnectStartsNothing ==
    history.connect_result = "failed" =>
        /\ pc = "done"
        /\ client.connect_calls = 1
        /\ cycle_count = 0
        /\ cycle_topics = << >>
        /\ ~history.any_published
        /\ published = << >>
        /\ self = InitialSelf

C6_Witness ==
    /\ history.connect_result = "failed"
    /\ pc = "done"
    /\ history.exit = "return"

\* C7: the result codes of the publish calls of a generator change nothing:
\* the simulator, the random generator and the topics and payloads sent are
\* those of the same call with every publish succeeding, and control goes on
\* to the next statement of the loop.
C7_PublishFailureIgnored ==
    history.call.name \in Range(Generators) =>
        /\ pc = After(history.call.name)
        /\ self = history.ref.self
        /\ rng = history.ref.rng
        /\ TopicsOf(published) = TopicsOf(history.ref.sent)
        /\ \A i \in 1 .. Len(published) :
             published[i].payload = history.ref.sent[i].payload

\* In the second cycle, after a cycle whose publishes failed in part, a call
\* has gone on publishing after a failed publish.
C7_Witness ==
    /\ cycle_count = 2
    /\ pc = "drift"
    /\ history.call.name = "test"
    /\ Len(published) >= 4
    /\ published[1].rc # 0
    /\ published[2].rc = 0
    /\ published[3].rc # 0

\* The 21 topics in the order in which a cycle may publish on them.
CycleOrder ==
    << "sensors/temperature/living-room", "sensors/temperature/celsius",
       "sensors/temperature/kitchen", "sensors/temperature/bedroom",
       "sensors/temperature/outdoor",
       "sensors/humidity/living-room", "sensors/humidity/kitchen",
       "sensors/humidity/bedroom",
       "sensors/light",
       "sensors/motion/living-room", "sensors/motion/kitchen",
       "sensors/motion/bedroom",
       "devices/thermostat/status", "devices/smart-plug/power",
       "devices/door-sensor", "devices/window-sensor",
       "test/threshold-sensor", "test/toggle-button",
       "test/temp-sensor-1", "test/temp-sensor-2", "test/temp-sensor-3" >>

OptionalTopics == Range(MotionTopics) \cup { "test/toggle-button" }

InCycle(t) == t \in Range(cycle_topics)

\* C8: the topics of a cycle go out in the fixed order of the six
\* generators, none twice; a full cycle has published on each of the 17
\* unconditional topics, so on 17 to 21 topics in all.
C8_CycleTopicsInOrder ==
    /\ cycle_topics = SelectSeq(CycleOrder, InCycle)
    /\ pc \in { "drift", "sleep" } =>
         /\ (Range(CycleOrder) \ OptionalTopics) \subseteq Range(cycle_topics)
         /\ Len(cycle_topics) >= 17
         /\ Len(cycle_topics) <= 21

C8_Witness ==
    /\ pc = "drift"
    /\ Len(cycle_topics) = 21

\* C9: only the drift step changes temperature_base and humidity_base, by at
\* most 0.1 and 0.5; it follows the last publish of the cycle and precedes
\* the sleep; and the thermostat record of a cycle carries the base that the
\* cycle's temperature batch used.
C9_BasesChangeOnlyInDrift ==
    [][ /\ ~(pc = "drift" /\ pc' = "sleep") =>
             /\ self'.temperature_base = self.temperature_base
             /\ self'.humidity_base = self.humidity_base
        /\ (pc = "drift" /\ pc' = "sleep") =>
             /\ Abs(self'.temperature_base - self.temperature_base) <= 100
             /\ Abs(self'.humidity_base - self.humidity_base) <= 500
             /\ cycle_topics' = cycle_topics
             /\ published' = << >>
        /\ (pc = "device" /\ pc' = "test") =>
             /\ published'[1].topic = "devices/thermostat/status"
             /\ published'[1].payload.value[2].temperature = history'.cycle_base
             /\ history'.cycle_base = self'.temperature_base
      ]_vars

\* A cycle has drifted the temperature base by the full 0.1.
C9_Witness ==
    /\ pc = "sleep"
    /\ cycle_count = 2
    /\ history.cycle_base - self.temperature_base = 100

\* C10: at every hour 0..23 simulate_light_sensors takes the day branch
\* (hours 6..20) or the night branch (hours 21..23 and 0..5), never the
\* dawn/dusk branch, and the level stored is one of the branch taken.
C10_DayOrNightAtEveryHour ==
    history.call.name = "light" =>
        /\ history.call.hour \in 0 .. 23
        /\ history.call.regime \in { "day", "night" }
        /\ history.call.regime = "day"
             <=> (6 <= history.call.hour /\ history.call.hour <= 20)
        /\ history.call.regime = "day"
             => (50000 <= self.light_level /\ self.light_level <= 90000)
        /\ history.call.regime = "night"
             => (5000 <= self.light_level /\ self.light_level <= 25000)

C10_Witness ==
    /\ history.call.name = "light"
    /\ history.call.hour = 20
    /\ history.call.regime = "day"
====
